---- MODULE Spec2Model ----
(***************************************************************************)
(* Model of the otp program: the QR front end (src/src/qrcode/mod.rs), the *)
(* TOTP configuration parser and the HOTP/TOTP engine                      *)
(* (src/src/totp/mod.rs) and the driver (src/src/main.rs).                 *)
(*                                                                         *)
(* Strings are sequences of one-character strings.  Unsigned 32-bit values *)
(* are records [hi, lo] of two 16-bit limbs (value = hi * 65536 + lo), and *)
(* the 64-bit clock reading is a sequence of four 16-bit limbs, most       *)
(* significant first, so that every Rust integer keeps its width.          *)
(***************************************************************************)
EXTENDS Integers, Sequences, FiniteSets, TLC

\* ------------------------------------------------------------------ bounds
\* Longest query string (number of key=value pairs) of a parsed URI.
MaxParams == 2
\* Longest string handed to pad_string_to_base32 by the padding harness.
MaxPadLen == 9
\* Most results the barcode decoder returns for one image.
MaxCodes == 2

\* ------------------------------------------------------- machine integers
Limb == 65536

\* Bit i (0 = least significant) of a non-negative integer.
Bit(a, i) == (a \div 2 ^ i) % 2

\* x & y and x | y on four-bit values.
NibbleAnd(x, y) ==
    (Bit(x, 0) * Bit(y, 0) + 2 * (Bit(x, 1) * Bit(y, 1)))
    + (4 * (Bit(x, 2) * Bit(y, 2)) + 8 * (Bit(x, 3) * Bit(y, 3)))

NibbleOr(x, y) == x + y - NibbleAnd(x, y)

\* a & b and a | b on 16-bit values, four bits at a time.
BitAnd(a, b) ==
    (NibbleAnd(a % 16, b % 16) + 16 * NibbleAnd((a \div 16) % 16, (b \div 16) % 16))
    + (256 * NibbleAnd((a \div 256) % 16, (b \div 256) % 16)
       + 4096 * NibbleAnd((a \div 4096) % 16, (b \div 4096) % 16))

BitOr(a, b) == a + b - BitAnd(a, b)

\* A u32 from its limbs.
U32(h, l) == [hi |-> h, lo |-> l]

\* `b as u32` for a u8 or other small value b.
AsU32(b) == U32(0, b)

U32Zero == U32(0, 0)

U32And(a, b) == U32(BitAnd(a.hi, b.hi), BitAnd(a.lo, b.lo))

U32Or(a, b) == U32(BitOr(a.hi, b.hi), BitOr(a.lo, b.lo))

\* a << n on u32 for 0 <= n < 32 (the bits shifted out are lost).
U32Shl(a, n) ==
    IF n >= 16 THEN U32((a.lo * 2 ^ (n - 16)) % Limb, 0)
    ELSE U32((a.hi * 2 ^ n + (a.lo * 2 ^ n) \div Limb) % Limb, (a.lo * 2 ^ n) % Limb)

\* a >> n on u32 for 0 <= n < 32.
U32Shr(a, n) ==
    IF n >= 16 THEN U32(0, a.hi \div 2 ^ (n - 16))
    ELSE U32(a.hi \div 2 ^ n, (a.hi % 2 ^ n) * 2 ^ (16 - n) + a.lo \div 2 ^ n)

\* a < b and a <= b on limb pairs (the high limb may be wider than 16 bits).
U32Lt(a, b) == a.hi < b.hi \/ (a.hi = b.hi /\ a.lo < b.lo)

U32Le(a, b) == a = b \/ U32Lt(a, b)

\* The limb pair of hi * 65536 + lo, the low limb brought below 65536.
Carry(h, l) == U32(h + l \div Limb, l % Limb)

\* a * k for a small k (k <= 16).
MulSmall(a, k) == Carry(a.hi * k, a.lo * k)

\* a - b for a >= b.
U32Sub(a, b) ==
    IF a.lo >= b.lo THEN U32(a.hi - b.hi, a.lo - b.lo)
    ELSE U32(a.hi - b.hi - 1, a.lo + Limb - b.lo)

\* Hexadecimal digit i (0 = least significant) of a.
HexDigit(a, i) == IF i >= 4 THEN (a.hi \div 16 ^ (i - 4)) % 16 ELSE (a.lo \div 16 ^ i) % 16

RECURSIVE DivLoop(_, _, _, _, _)
\* Long division in base 16, from digit i down to digit 0: [q, r] with
\* n = q * d + r and r < d.
DivLoop(n, d, i, q, r) ==
    IF i < 0 THEN [q |-> q, r |-> r]
    ELSE LET r2 == Carry(r.hi * 16, r.lo * 16 + HexDigit(n, i))
             k  == CHOOSE j \in 0..15 : U32Le(MulSmall(d, j), r2) /\ U32Lt(r2, MulSmall(d, j + 1))
             q3 == Carry(q.hi * 16, q.lo * 16 + k)
             r3 == U32Sub(r2, MulSmall(d, k))
         IN IF U32Lt(r3, d) /\ q3.hi < Limb
            THEN DivLoop(n, d, i - 1, q3, r3)
            ELSE [q |-> q3, r |-> r3]

\* n / d and n % d by a divisor below 2^15: one step per limb.
DivSmall(n, k) ==
    LET t == (n.hi % k) * Limb + n.lo
    IN [q |-> U32(n.hi \div k, t \div k), r |-> U32(0, t % k)]

\* n / d and n % d of operands below 2^31, on the integer values.
DivBelow31(n, d) ==
    LET a == n.hi * Limb + n.lo
        b == d.hi * Limb + d.lo
    IN [q |-> U32((a \div b) \div Limb, (a \div b) % Limb),
        r |-> U32((a % b) \div Limb, (a % b) % Limb)]

\* n / d and n % d on u32, d # 0.
DivMod(n, d) ==
    IF n.hi < 32768 /\ d.hi < 32768 THEN DivBelow31(n, d)
    ELSE IF d.hi = 0 /\ d.lo < 32768 THEN DivSmall(n, d.lo)
    ELSE DivLoop(n, d, 7, U32Zero, U32Zero)

U32Div(n, d) == DivMod(n, d).q

U32Rem(n, d) == DivMod(n, d).r

\* a * 10 + c without wrapping: the limbs of the exact result (hi may pass 16 bits).
Mul10Add(a, c) ==
    LET l == a.lo * 10 + c
    IN U32(a.hi * 10 + l \div Limb, l % Limb)

\* ---------------------------------------------------------------- strings
DigitChars == <<"0", "1", "2", "3", "4", "5", "6", "7", "8", "9">>

IsDigitChar(c) == \E i \in 1..10 : DigitChars[i] = c

DigitValue(c) == (CHOOSE i \in 1..10 : DigitChars[i] = c) - 1

RECURSIVE ParseDigits(_, _, _)
\* The digit loop of str::parse for an unsigned type with maximum `max`.
ParseDigits(str, acc, max) ==
    IF str = <<>> THEN [ok |-> TRUE, val |-> acc]
    ELSE IF ~IsDigitChar(Head(str)) THEN [ok |-> FALSE, val |-> U32Zero]
    ELSE LET n == Mul10Add(acc, DigitValue(Head(str)))
         IN IF U32Lt(max, n) THEN [ok |-> FALSE, val |-> U32Zero]
            ELSE ParseDigits(Tail(str), n, max)

\* str::parse::<uN>(): an optional '+', then at least one digit, no overflow.
ParseUnsigned(str, max) ==
    LET body == IF str # <<>> /\ Head(str) = "+" THEN Tail(str) ELSE str
    IN IF body = <<>> THEN [ok |-> FALSE, val |-> U32Zero]
       ELSE ParseDigits(body, U32Zero, max)

U32Max == U32(65535, 65535)

U8Max == U32(0, 255)

\* The Base32 pad character.
PadChar == "="

\* Variant: pad_len without the test of len % 8 != 0.
PadLenUntested(len) == 8 - (len % 8)

\* pad_len of pad_string_to_base32 for a string of `len` bytes.
PadLen(len) == IF len % 8 # 0 THEN 8 - (len % 8) ELSE 0

\* pad_string_to_base32: push '=' pad_len times.
PadStringToBase32(str) == str \o [i \in 1..PadLen(Len(str)) |-> PadChar]

\* The RFC 4648 Base32 alphabet of data_encoding::BASE32.
Base32Alphabet ==
    <<"A", "B", "C", "D", "E", "F", "G", "H", "I", "J", "K", "L", "M", "N", "O", "P",
      "Q", "R", "S", "T", "U", "V", "W", "X", "Y", "Z", "2", "3", "4", "5", "6", "7">>

IsBase32Char(c) == \E i \in 1..32 : Base32Alphabet[i] = c

Base32Value(c) == (CHOOSE i \in 1..32 : Base32Alphabet[i] = c) - 1

\* One 8-character block: 2, 4, 5, 7 or 8 symbols followed by padding; the
\* 5-bit symbol values are packed into bytes, most significant bit first,
\* and the bits left over after the last whole byte must be zero.
DecodeBlock(block) ==
    LET n == Len(block)
                - Cardinality({i \in 1..Len(block) : \A j \in i..Len(block) : block[j] = PadChar})
    IN IF n \notin {2, 4, 5, 7, 8} \/ \E i \in 1..n : ~IsBase32Char(block[i])
       THEN [ok |-> FALSE, val |-> <<>>]
       ELSE LET x == [i \in 1..8 |-> IF i <= n THEN Base32Value(block[i]) ELSE 0]
                bytes == << x[1] * 8 + x[2] \div 4,
                            (x[2] % 4) * 64 + x[3] * 2 + x[4] \div 16,
                            (x[4] % 16) * 16 + x[5] \div 2,
                            (x[5] % 2) * 128 + x[6] * 4 + x[7] \div 8,
                            (x[7] % 8) * 32 + x[8] >>
                nbytes == (5 * n) \div 8
                left == IF n = 2 THEN x[2] % 4
                        ELSE IF n = 4 THEN x[4] % 16
                        ELSE IF n = 5 THEN x[5] % 2
                        ELSE IF n = 7 THEN x[7] % 8
                        ELSE 0
            IN IF left # 0 THEN [ok |-> FALSE, val |-> <<>>]
               ELSE [ok |-> TRUE, val |-> SubSeq(bytes, 1, nbytes)]

RECURSIVE Base32Decode(_)
\* BASE32.decode: the input is a whole number of 8-character blocks.
Base32Decode(str) ==
    IF Len(str) % 8 # 0 THEN [ok |-> FALSE, val |-> <<>>]
    ELSE IF str = <<>> THEN [ok |-> TRUE, val |-> <<>>]
    ELSE LET first == DecodeBlock(SubSeq(str, 1, 8))
             rest  == Base32Decode(SubSeq(str, 9, Len(str)))
         IN IF first.ok /\ rest.ok
            THEN [ok |-> TRUE, val |-> first.val \o rest.val]
            ELSE [ok |-> FALSE, val |-> <<>>]

\* ------------------------------------------------------------- TOTPSpec
\* Option<T>.
None == [tag |-> "None"]

Some(x) == [tag |-> "Some", val |-> x]

\* A parsed Url: host_str() and query_pairs() in order.
Url(host, query) == [host |-> host, query |-> query]

\* TOTPSpec::default().
TOTPSpecDefault ==
    [secret    |-> <<>>,
     period    |-> U32(0, 30),
     digits    |-> 6,
     algorithm |-> <<"S", "H", "A", "1">>,
     issuer    |-> <<>>]

\* Variant: the parsed period kept as it is.
ClampPeriodNoGuard(p) == p

\* The guard on a parsed period: below 1 becomes 30.
ClampPeriod(p) == IF U32Lt(p, U32(0, 1)) THEN U32(0, 30) ELSE p

\* Variant: the guard without its upper limit.
ClampDigitsNoUpper(d) == IF d < 6 THEN 6 ELSE d

\* The guard on a parsed digit count: outside 6..8 becomes 6.
ClampDigits(d) == IF d < 6 \/ d > 8 THEN 6 ELSE d

\* A query key as query_pairs yields it: Borrowed when the raw key needed no
\* decoding, Owned when '+' or a percent escape was decoded.
Borrowed(name) == [cow |-> "Borrowed", name |-> name]

Owned(name) == [cow |-> "Owned", name |-> name]

\* One arm of the match on a query pair: [ok, spec], ok FALSE when an unwrap panics.
MatchArm(spec, qs) ==
    IF qs.key = Borrowed("secret")
    THEN LET d == Base32Decode(PadStringToBase32(qs.val))
         IN [ok |-> d.ok, spec |-> IF d.ok THEN [spec EXCEPT !.secret = d.val] ELSE spec]
    ELSE IF qs.key = Borrowed("period")
    THEN LET p == ParseUnsigned(qs.val, U32Max)
         IN [ok |-> p.ok, spec |-> IF p.ok THEN [spec EXCEPT !.period = ClampPeriod(p.val)] ELSE spec]
    ELSE IF qs.key = Borrowed("algorithm")
    THEN [ok |-> TRUE, spec |-> [spec EXCEPT !.algorithm = qs.val]]
    ELSE IF qs.key = Borrowed("digits")
    THEN LET d == ParseUnsigned(qs.val, U8Max)
         IN [ok |-> d.ok, spec |-> IF d.ok THEN [spec EXCEPT !.digits = ClampDigits(d.val.lo)] ELSE spec]
    ELSE IF qs.key = Borrowed("issuer")
    THEN [ok |-> TRUE, spec |-> [spec EXCEPT !.issuer = qs.val]]
    ELSE [ok |-> TRUE, spec |-> spec]

RECURSIVE QueryLoopReversed(_, _)
\* Variant: the pairs taken from the last to the first.
QueryLoopReversed(spec, query) ==
    IF query = <<>> THEN [status |-> "ok", spec |-> spec]
    ELSE LET r == MatchArm(spec, query[Len(query)])
         IN IF r.ok THEN QueryLoopReversed(r.spec, SubSeq(query, 1, Len(query) - 1))
            ELSE [status |-> "panic", spec |-> spec]

RECURSIVE QueryLoop(_, _)
\* for qs in query_string { match qs { ... } }: the pairs in their order; a
\* panic ends the loop.
QueryLoop(spec, query) ==
    IF query = <<>> THEN [status |-> "ok", spec |-> spec]
    ELSE LET r == MatchArm(spec, Head(query))
         IN IF r.ok THEN QueryLoop(r.spec, Tail(query))
            ELSE [status |-> "panic", spec |-> spec]

\* Variant: only the host hotp is turned away.
HostRejectedOnlyHotp(u) == u.host = Some("hotp")

\* u.host_str() != Some("totp")
HostRejected(u) == u.host # Some("totp")

\* TOTPSpec::new(u): "exit" is process::exit(1), "panic" a failed unwrap.
New(u) ==
    IF HostRejected(u) THEN [status |-> "exit", spec |-> TOTPSpecDefault]
    ELSE QueryLoop(TOTPSpecDefault, u.query)

\* ----------------------------------------------------------- OTP engine
\* A [u8; 8].
IsBytes8(x) == x \in [1..8 -> 0..255]

RECURSIVE FromLoopLittleEndian(_, _, _)
\* Variant: x[i] in place of x[7 - i].
FromLoopLittleEndian(i, c, x) ==
    IF i = 8 THEN x
    ELSE LET x2 == [x EXCEPT ![i + 1] = U32And(c, U32(0, 255)).lo]
             c2 == U32Shr(c, 8)
         IN IF IsBytes8(x2) /\ U32Le(c2, c) THEN FromLoopLittleEndian(i + 1, c2, x2) ELSE x2

RECURSIVE FromLoop(_, _, _)
\* for i in 0..8 { x[7 - i] = (c & 0xff) as u8; c = c >> 8; }  (x is 1-based here)
FromLoop(i, c, x) ==
    IF i = 8 THEN x
    ELSE LET x2 == [x EXCEPT ![8 - i] = U32And(c, U32(0, 255)).lo]
             c2 == U32Shr(c, 8)
         IN IF IsBytes8(x2) /\ U32Le(c2, c) THEN FromLoop(i + 1, c2, x2) ELSE x2

\* impl From<u32> for Bytes
BytesFrom(v) == FromLoop(0, v, <<0, 0, 0, 0, 0, 0, 0, 0>>)

\* `t.as_secs() as u32`: the low 32 bits of the 64-bit seconds count.
SecsAsU32(t) == U32(t[3], t[4])

\* The four limbs of t / k for a 64-bit t and 0 < k < 2^15, one limb a step.
Div64(t, k) ==
    LET r1 == t[1] % k
        c2 == r1 * Limb + t[2]
        c3 == (c2 % k) * Limb + t[3]
        c4 == (c3 % k) * Limb + t[4]
    IN <<t[1] \div k, c2 \div k, c3 \div k, c4 \div k>>

\* Variant: (t.as_secs() / spec.period) as u32, the division before the cast.
GetCounterDivideFirst(t, period) == SecsAsU32(Div64(t, period.lo))

\* get_counter_as_bytes: t.as_secs() as u32 / spec.period (the cast binds first).
GetCounterAsBytes(t, period) == U32Div(SecsAsU32(t), period)

\* Digests of ring's HMAC-SHA1 for the key/message pairs the tests rely on.
RfcSecret ==
    <<49, 50, 51, 52, 53, 54, 55, 56, 57, 48, 49, 50, 51, 52, 53, 54, 55, 56, 57, 48>>

UrlTestSecret == <<72, 101, 108, 108, 111, 33, 222, 173, 190, 239>>

KnownTags ==
    { [key |-> RfcSecret, msg |-> <<0, 0, 0, 0, 0, 0, 0, 1>>,
       tag |-> <<117, 164, 138, 25, 212, 203, 225, 0, 100, 78, 138, 193, 57, 126, 234,
                 116, 122, 45, 51, 171>>],
      [key |-> RfcSecret, msg |-> <<0, 0, 0, 0, 0, 0, 0, 9>>,
       tag |-> <<22, 55, 64, 152, 9, 166, 121, 220, 105, 130, 7, 49, 12, 140, 127, 192,
                 114, 144, 217, 229>>],
      [key |-> UrlTestSecret, msg |-> <<0, 0, 0, 0, 3, 44, 228, 37>>,
       tag |-> <<61, 22, 50, 76, 55, 141, 38, 79, 161, 73, 170, 19, 152, 160, 5, 184,
                 225, 63, 14, 186>>] }

\* Digests standing for those of all other inputs, one for each low nibble k
\* of the last byte: bytes 0..18 are all zero (k = 0), all 0xff (k = 15) or a
\* ramp, and the high nibble of the last byte varies with k.
TagFill(k, i) ==
    IF k = 0 THEN 0 ELSE IF k = 15 THEN 255 ELSE (37 * i + 29 * k + 11) % 256

TagOf(k) == [i \in 1..20 |-> IF i = 20 THEN 16 * ((7 * k + 5) % 16) + k ELSE TagFill(k, i)]

\* The digest is a function of key and message: a key/message pair has the
\* candidates of its class.
TagSamples(key, msg) == {TagOf(k) : k \in {j \in 0..15 : j % 8 = (Len(key) + msg[8]) % 8}}

\* hmac::sign(&key, msg): a 20-byte digest, a function of key and message
\* computed outside this program.
HmacSign(key, msg) ==
    IF \E k \in KnownTags : k.key = key /\ k.msg = msg
    THEN {k.tag : k \in {kk \in KnownTags : kk.key = key /\ kk.msg = msg}}
    ELSE TagSamples(key, msg)

\* offset = (tag[19] & 0x0f) as usize
TagOffset(tag) == BitAnd(tag[20], 15)

\* Variant: the first byte of the window taken whole (& 0xff).
TruncateNoMask(tag) ==
    LET offset == TagOffset(tag)
        h0 == U32Shl(AsU32(BitAnd(tag[offset + 1], 255)), 24)
        h1 == U32Or(h0, U32Shl(AsU32(BitAnd(tag[offset + 2], 255)), 16))
        h2 == U32Or(h1, U32Shl(AsU32(BitAnd(tag[offset + 3], 255)), 8))
    IN U32Or(h2, AsU32(BitAnd(tag[offset + 4], 255)))

\* The four-byte window at the offset as a u32 (tag is 1-based here).
Truncate(tag) ==
    LET offset == TagOffset(tag)
        h0 == U32Shl(AsU32(BitAnd(tag[offset + 1], 127)), 24)
        h1 == U32Or(h0, U32Shl(AsU32(BitAnd(tag[offset + 2], 255)), 16))
        h2 == U32Or(h1, U32Shl(AsU32(BitAnd(tag[offset + 3], 255)), 8))
    IN U32Or(h2, AsU32(BitAnd(tag[offset + 4], 255)))

RECURSIVE Pow10(_)
\* 10u32.pow(n): exact for n <= 9; beyond, the product no longer fits 32 bits
\* and is kept modulo 2^32.
Pow10(n) ==
    IF n <= 9 THEN U32((10 ^ n) \div Limb, (10 ^ n) % Limb)
    ELSE LET m == Mul10Add(Pow10(n - 1), 0) IN U32(m.hi % Limb, m.lo)

\* The n decimal digits of v (v < 10^n <= 10^5), most significant first.
DigitsOf(v, n) == [i \in 1..n |-> DigitChars[((v \div 10 ^ (n - i)) % 10) + 1]]

\* The number of decimal digits of v < 10^5.
NumDigits(v) == IF v = 0 THEN 1 ELSE CHOOSE n \in 1..5 : 10 ^ (n - 1) <= v /\ v < 10 ^ n

\* The decimal digits of x, without leading zeros ("0" for zero): the part
\* above 10^5 and the five digits below it.
ToDecimal(x) ==
    LET dm   == DivMod(x, U32(1, 34464))
        high == dm.q.lo
        low  == dm.r.hi * Limb + dm.r.lo
    IN IF high = 0 THEN DigitsOf(low, NumDigits(low))
       ELSE DigitsOf(high, NumDigits(high)) \o DigitsOf(low, 5)

\* Variant: format!("{}", x), no padding.
FormatNoPad(x, w) == ToDecimal(x)

\* format!("{:0w$}", x, w = w): zeros on the left up to width w, never cut.
FormatZeroPad(x, w) ==
    LET d == ToDecimal(x)
    IN IF Len(d) >= w THEN d ELSE [i \in 1..(w - Len(d)) |-> "0"] \o d

\* get_otp(spec, counter), given the digest hmac::sign returned.
GetOtp(spec, tag) == FormatZeroPad(U32Rem(Truncate(tag), Pow10(spec.digits)), spec.digits)

\* ------------------------------------------------------------ QR front end
\* Url::parse of a decoded text: Err for a malformed one.
UrlParse(text) == IF text.wellformed THEN Some(text.url) ELSE None

\* extract_totp_uri on an image: [status, uri]; "panic" is the unwrap of a
\* failed first decode result.
Extract(img) ==
    IF ~img.opens THEN [status |-> "return", uri |-> None]
    ELSE IF Len(img.codes) > 0
    THEN IF ~img.codes[1].ok THEN [status |-> "panic", uri |-> None]
         ELSE [status |-> "return", uri |-> UrlParse(img.codes[1].text)]
    ELSE [status |-> "return", uri |-> None]

\* ------------------------------------------------------------------ inputs
QuerySecrets ==
    { <<>>, <<"M", "E">>, <<"M", "F">>,
      <<"J", "B", "S", "W", "Y", "3", "D", "P", "E", "H", "P", "K", "3", "P", "X", "P">>,
      <<"G", "E", "Z", "D", "G", "N", "B", "V", "G", "Y", "3", "T", "Q", "O", "J", "Q",
        "G", "E", "Z", "D", "G", "N", "B", "V", "G", "Y", "3", "T", "Q", "O", "J", "Q">> }

QueryPeriods == { <<"0">>, <<"1">>, <<"6", "0">>, <<"-", "1">> }

QueryDigits == { <<"3">>, <<"7">>, <<"8">>, <<"9">>, <<"2", "5", "6">> }

Pair(key, val) == [key |-> key, val |-> val]

Params ==
    {Pair(Borrowed("secret"), x) : x \in QuerySecrets}
    \cup {Pair(Borrowed("period"), x) : x \in QueryPeriods}
    \cup {Pair(Borrowed("digits"), x) : x \in QueryDigits}
    \cup {Pair(Borrowed("algorithm"), <<"S", "H", "A", "2", "5", "6">>),
          Pair(Borrowed("issuer"), <<"a", "c", "m", "e">>),
          Pair(Borrowed("Digits"), <<"7">>),
          Pair(Owned("period"), <<"6", "0">>)}

RECURSIVE SeqsUpTo(_, _)
\* The sequences over S of length at most n.
SeqsUpTo(S, n) ==
    IF n = 0 THEN {<<>>}
    ELSE LET shorter == SeqsUpTo(S, n - 1)
         IN shorter \cup {Append(q, x) : q \in {r \in shorter : Len(r) = n - 1}, x \in S}

\* The pairs that longer queries are made of: two values for each recognised
\* key, a key in another case, a key the parser had to decode, and a secret
\* that does not decode.
RepeatParams ==
    { Pair(Borrowed("secret"), <<"M", "E">>),
      Pair(Borrowed("secret"),
           <<"J", "B", "S", "W", "Y", "3", "D", "P", "E", "H", "P", "K", "3", "P", "X", "P">>),
      Pair(Borrowed("secret"), <<"M", "F">>),
      Pair(Borrowed("period"), <<"0">>),
      Pair(Borrowed("period"), <<"6", "0">>),
      Pair(Borrowed("digits"), <<"3">>),
      Pair(Borrowed("digits"), <<"8">>),
      Pair(Borrowed("algorithm"), <<"S", "H", "A", "2", "5", "6">>),
      Pair(Borrowed("algorithm"), <<"M", "D", "5">>),
      Pair(Borrowed("issuer"), <<"a", "c", "m", "e">>),
      Pair(Borrowed("issuer"), <<>>),
      Pair(Borrowed("Digits"), <<"7">>),
      Pair(Owned("period"), <<"1">>) }

Hosts == {Some("totp"), Some("hotp"), None}

Urls ==
    {Url(h, q) : h \in Hosts, q \in SeqsUpTo(Params, 1) \cup SeqsUpTo(RepeatParams, MaxParams)}

\* What the barcode decoder may return for one located code.
QrTexts ==
    { [wellformed |-> FALSE, url |-> Url(None, <<>>)] }
    \cup { [wellformed |-> TRUE, url |-> Url(h, q)] :
             h \in {Some("totp"), Some("hotp")},
             q \in { <<Pair(Borrowed("secret"), <<"M", "E">>)>>,
                     <<Pair(Borrowed("secret"), <<"M", "E">>),
                       Pair(Borrowed("digits"), <<"8">>)>> } }

QrResults ==
    { [ok |-> FALSE, text |-> [wellformed |-> FALSE, url |-> Url(None, <<>>)]] }
    \cup { [ok |-> TRUE, text |-> t] : t \in QrTexts }

NoImage == [opens |-> FALSE, codes |-> <<>>, given |-> FALSE]

Images ==
    { [opens |-> FALSE, codes |-> <<>>, given |-> TRUE] }
    \cup { [opens |-> TRUE, codes |-> c, given |-> TRUE] : c \in SeqsUpTo(QrResults, MaxCodes) }

TestSecrets == { RfcSecret, UrlTestSecret, <<>> }

CounterSamples == { U32(0, 0), U32(0, 1), U32(0, 9), U32(812, 58405), U32(65535, 65535) }

LimbSamples == { 0, 1, 255, 256, 1337, 4660, 32768, 65535 }

U32Samples == { U32(h, l) : h \in LimbSamples, l \in LimbSamples }

\* Clock readings in seconds, as four 16-bit limbs: 0, 29, 30, the time of
\* the URL test's counter, 2^32 - 1, 2^32 and 2^32 + 30.
TimeSamples ==
    { <<0, 0, 0, 0>>, <<0, 0, 0, 29>>, <<0, 0, 0, 30>>, <<0, 0, 24386, 48214>>,
      <<0, 0, 65535, 65535>>, <<0, 1, 0, 0>>, <<0, 1, 0, 30>> }

PadAlphabet == {"A", PadChar}

PadInputs == SeqsUpTo(PadAlphabet, MaxPadLen) \cup { <<"t", "o", "t", "p">> }

\* ------------------------------------------------------------------- state
VARIABLES pc, image, uri, spec, now, counter, msg, tag, otp, s0, s

vars == <<pc, image, uri, spec, now, counter, msg, tag, otp, s0, s>>

NoSpec == [unset |-> TRUE]

NoTime == <<>>

NoCounter == [unset |-> TRUE]

Init ==
    /\ pc = "start"
    /\ image = NoImage
    /\ uri = None
    /\ spec = NoSpec
    /\ now = NoTime
    /\ counter = NoCounter
    /\ msg = <<>>
    /\ tag = <<>>
    /\ otp = <<>>
    /\ s0 = <<>>
    /\ s = <<>>

\* main: qrcode::extract_totp_uri(path)
ExtractTotpUri ==
    /\ pc = "start"
    /\ \E img \in Images :
         LET r == Extract(img)
         IN /\ image' = img
            /\ uri' = r.uri
            /\ pc' = IF r.status = "panic" THEN "panic" ELSE "extracted"
    /\ UNCHANGED <<spec, now, counter, msg, tag, otp, s0, s>>

\* main: .unwrap() of the extracted Option<Url>
MainUnwrap ==
    /\ pc = "extracted"
    /\ pc' = IF uri = None THEN "panic" ELSE "have_uri"
    /\ image' = NoImage
    /\ UNCHANGED <<uri, spec, now, counter, msg, tag, otp, s0, s>>

\* tests: Url::parse("otpauth://...").unwrap()
TestUrl ==
    /\ pc = "start"
    /\ \E u \in Urls : uri' = Some(u)
    /\ pc' = "have_uri"
    /\ UNCHANGED <<image, spec, now, counter, msg, tag, otp, s0, s>>

\* TOTPSpec::new(u): a rejected or panicking call ends the process where it
\* stands.  u is moved into the call; uri keeps on record what was passed.
TOTPSpecNew ==
    /\ pc = "have_uri"
    /\ LET r == New(uri.val)
       IN /\ pc' = IF r.status = "ok" THEN "have_spec" ELSE r.status
          /\ spec' = IF r.status = "ok" THEN r.spec ELSE NoSpec
    /\ UNCHANGED <<image, uri, now, counter, msg, tag, otp, s0, s>>

\* tests: TOTPSpec::default() with the secret overwritten
TestSpec ==
    /\ pc = "start"
    /\ \E k \in TestSecrets : spec' = [TOTPSpecDefault EXCEPT !.secret = k]
    /\ pc' = "have_spec"
    /\ UNCHANGED <<image, uri, now, counter, msg, tag, otp, s0, s>>

\* get_otp(&spec, counter)
GetOtpCall ==
    /\ pc = "have_spec"
    /\ \E c \in CounterSamples :
         \E t \in HmacSign(spec.secret, BytesFrom(c)) :
            /\ counter' = c
            /\ msg' = BytesFrom(c)
            /\ tag' = t
            /\ otp' = GetOtp(spec, t)
    /\ pc' = "otp"
    /\ UNCHANGED <<image, uri, spec, now, s0, s>>

\* spec.get_otp(): the counter from the clock, then get_otp
SpecGetOtp ==
    /\ pc = "have_spec"
    /\ \E t \in TimeSamples :
         /\ now' = t
         /\ IF spec.period = U32Zero
            THEN /\ pc' = "panic_divide_by_zero"
                 /\ UNCHANGED <<counter, msg, tag, otp>>
            ELSE LET c == GetCounterAsBytes(t, spec.period)
                 IN \E g \in HmacSign(spec.secret, BytesFrom(c)) :
                       /\ counter' = c
                       /\ msg' = BytesFrom(c)
                       /\ tag' = g
                       /\ otp' = GetOtp(spec, g)
                       /\ pc' = "otp_now"
    /\ UNCHANGED <<image, uri, spec, s0, s>>

\* tests: Bytes::from(v)
TestIntToBytes ==
    /\ pc = "start"
    /\ \E x \in U32Samples :
         /\ counter' = x
         /\ msg' = BytesFrom(x)
    /\ pc' = "bytes"
    /\ UNCHANGED <<image, uri, spec, now, tag, otp, s0, s>>

\* tests: pad_string_to_base32(&mut s), on a fresh string or on its own result
PadString ==
    /\ \/ pc = "start" /\ \E x \in PadInputs : s0' = x
       \/ pc = "padded" /\ s0 # s /\ s0' = s
    /\ s' = PadStringToBase32(s0')
    /\ pc' = "padded"
    /\ UNCHANGED <<image, uri, spec, now, counter, msg, tag, otp>>

Next ==
    \/ ExtractTotpUri
    \/ MainUnwrap
    \/ TestUrl
    \/ TOTPSpecNew
    \/ TestSpec
    \/ GetOtpCall
    \/ SpecGetOtp
    \/ TestIntToBytes
    \/ PadString

Spec == Init /\ [][Next]_vars

\* -------------------------------------------------------------- properties
\* The states that hold a spec.
SpecStates == {"have_spec", "otp", "otp_now"}

\* The spec in hand was returned by TOTPSpec::new(uri.val).
BuiltByNew == pc \in SpecStates /\ uri # None

\* The positions of the query pairs whose key is exactly `name`, undecoded.
Occurrences(query, name) == {i \in 1..Len(query) : query[i].key = Borrowed(name)}

\* The value of the last pair with that key.
LastValue(query, name) ==
    LET I == Occurrences(query, name)
    IN query[CHOOSE i \in I : \A j \in I : j <= i].val

\* C2: a spec returned by TOTPSpec::new for a totp URI has digits in
\* {6, 7, 8}; with a digits parameter, it is the last one's value when that
\* is 6, 7 or 8, and 6 when it is below 6 or above 8.
C2_DigitsInRange ==
    BuiltByNew =>
        /\ spec.digits \in {6, 7, 8}
        /\ Occurrences(uri.val.query, "digits") # {} =>
              LET d == ParseUnsigned(LastValue(uri.val.query, "digits"), U8Max).val.lo
              IN spec.digits = IF d \in {6, 7, 8} THEN d ELSE 6

\* A spec built from a query that repeats the digits key and ends with
\* digits=3: the parse succeeded and the spec holds 6.
C2_Witness ==
    /\ BuiltByNew
    /\ Cardinality(Occurrences(uri.val.query, "digits")) = 2
    /\ LastValue(uri.val.query, "digits") = <<"3">>
    /\ spec.digits = 6

\* C3: a spec returned by TOTPSpec::new for a totp URI has period >= 1, a
\* parsed period of 0 having become 30, and the counter derivation of such a
\* spec never divides by zero.
C3_PeriodPositive ==
    /\ BuiltByNew =>
          /\ U32Le(U32(0, 1), spec.period)
          /\ (/\ Occurrences(uri.val.query, "period") # {}
              /\ LastValue(uri.val.query, "period") = <<"0">>) => spec.period = U32(0, 30)
    /\ uri # None => pc # "panic_divide_by_zero"

\* An OTP computed from the clock with a spec whose query ended with period=0.
C3_Witness ==
    /\ pc = "otp_now"
    /\ uri # None
    /\ Occurrences(uri.val.query, "period") # {}
    /\ LastValue(uri.val.query, "period") = <<"0">>
    /\ spec.period = U32(0, 30)
    /\ counter = U32Div(SecsAsU32(now), U32(0, 30))

\* C4: a URI whose host is not "totp" goes no further than the rejection:
\* the process exits, whatever the query holds (no parameter is parsed, so
\* none can panic), no spec is returned and no OTP is computed.
C4_HostRejected ==
    (uri # None /\ uri.val.host # Some("totp")) =>
        /\ pc \in {"extracted", "have_uri", "exit"}
        /\ spec = NoSpec
        /\ otp = <<>>

\* A rejected URI without a host whose first parameter would have panicked.
C4_Witness ==
    /\ pc = "exit"
    /\ uri.val.host = None
    /\ uri.val.query # <<>>
    /\ uri.val.query[1] = Pair(Borrowed("secret"), <<"M", "F">>)
    /\ spec = NoSpec

\* What a field of the returned spec is to be: the default without a pair of
\* that key, else the value the last such pair normalises to.
FieldOf(query, name, default, normalised) ==
    IF Occurrences(query, name) = {} THEN default ELSE normalised

ExpectedSpec(query) ==
    [secret    |-> FieldOf(query, "secret", <<>>,
                           Base32Decode(PadStringToBase32(LastValue(query, "secret"))).val),
     period    |-> FieldOf(query, "period", U32(0, 30),
                           LET p == ParseUnsigned(LastValue(query, "period"), U32Max).val
                           IN IF p = U32Zero THEN U32(0, 30) ELSE p),
     digits    |-> FieldOf(query, "digits", 6,
                           LET d == ParseUnsigned(LastValue(query, "digits"), U8Max).val.lo
                           IN IF d \in {6, 7, 8} THEN d ELSE 6),
     algorithm |-> FieldOf(query, "algorithm", <<"S", "H", "A", "1">>,
                           LastValue(query, "algorithm")),
     issuer    |-> FieldOf(query, "issuer", <<>>, LastValue(query, "issuer"))]

\* C5: each field of a spec returned by TOTPSpec::new is the default when
\* the query has no pair with that field's exact key, and otherwise the
\* normalised value of the last such pair, whatever the earlier pairs and
\* the pairs with other keys are.
C5_LastOccurrenceWins == BuiltByNew => spec = ExpectedSpec(uri.val.query)

\* A spec built from a query that gives the algorithm twice, with different
\* values: the second is kept and the other fields are the defaults.
C5_Witness ==
    /\ BuiltByNew
    /\ Occurrences(uri.val.query, "algorithm") = {1, 2}
    /\ uri.val.query[1].val # uri.val.query[2].val
    /\ spec = [TOTPSpecDefault EXCEPT !.algorithm = uri.val.query[2].val]

\* C6: extract_totp_uri returns, and returns None, whenever the image does
\* not open, holds no barcode, its first barcode does not decode or the
\* decoded text is no URI; it never ends abnormally, and a URI it returns is
\* the parse of the first decoded text.
C6_FailureIsAbsence ==
    image.given =>
        /\ pc = "extracted"
        /\ (\/ ~image.opens
            \/ image.codes = <<>>
            \/ ~image.codes[1].ok
            \/ ~image.codes[1].text.wellformed) => uri = None
        /\ uri # None => uri = Some(image.codes[1].text.url)

\* The call on an image whose first barcode did not decode: a panic.
C6_Witness ==
    /\ image.given
    /\ image.opens
    /\ image.codes # <<>>
    /\ ~image.codes[1].ok
    /\ pc = "panic"

\* C7: pad_string_to_base32 leaves a multiple of 8 characters: the original
\* ones followed by (8 - len mod 8) mod 8 pad characters, so by none when
\* the length already was a multiple of 8, as on its own result.
C7_PadToMultipleOf8 ==
    pc = "padded" =>
        /\ Len(s) % 8 = 0
        /\ Len(s) - Len(s0) = (8 - (Len(s0) % 8)) % 8
        /\ Len(s) - Len(s0) \in 0..7
        /\ SubSeq(s, 1, Len(s0)) = s0
        /\ \A i \in (Len(s0) + 1)..Len(s) : s[i] = "="
        /\ Len(s0) % 8 = 0 => s = s0
        /\ s0 = <<"t", "o", "t", "p">> => s = <<"t", "o", "t", "p", "=", "=", "=", "=">>

\* The second application on the padded "totp": nothing is appended.
C7_Witness ==
    /\ pc = "padded"
    /\ s0 = <<"t", "o", "t", "p", "=", "=", "=", "=">>
    /\ s = s0

\* C8: Bytes::from(v) is v in 8 big-endian bytes: bytes 0..3 are zero and
\* bytes 4..7 hold v, most significant first, so the bytes give v back.
C8_BigEndianBytes ==
    pc \in {"bytes", "otp", "otp_now"} =>
        /\ Len(msg) = 8
        /\ \A i \in 1..8 : msg[i] \in 0..255
        /\ \A i \in 1..4 : msg[i] = 0
        /\ msg[5] * 256 + msg[6] = counter.hi
        /\ msg[7] * 256 + msg[8] = counter.lo
        /\ msg[8] = counter.lo % 256
        /\ counter = U32(0, 1337) => msg = <<0, 0, 0, 0, 0, 0, 5, 57>>

\* The encoding of a counter with four different non-zero bytes.
C8_Witness ==
    /\ pc = "bytes"
    /\ counter = U32(4660, 1337)
    /\ msg = <<0, 0, 0, 0, 18, 52, 5, 57>>

\* The states reached by computing an OTP.
OtpStates == {"otp", "otp_now"}

\* The n decimal digits of v < 10^n, most significant first.
Decimal(v, n) == [i \in 1..n |-> DigitChars[((v \div 10 ^ (n - i)) % 10) + 1]]

\* The big-endian value of the four bytes of tag from index off (0-based),
\* the top bit of the first one dropped.
Window31(t, off) ==
    (((t[off + 1] % 128) * 16777216 + t[off + 2] * 65536) + t[off + 3] * 256) + t[off + 4]

\* C9: the offset is the low nibble of tag[19], so within 0..15, the four
\* indices read lie within the 20 bytes, the truncated value is the
\* big-endian window with its top bit cleared, so below 2^31, and the OTP is
\* that value modulo 10^digits; the RFC 4226 secret gives "287082" for
\* counter 1 and "520489" for counter 9.
C9_DynamicTruncation ==
    pc \in OtpStates =>
        LET off == tag[20] % 16
            h   == Window31(tag, off)
        IN /\ Len(tag) = 20
           /\ TagOffset(tag) = off
           /\ off \in 0..15
           /\ off + 3 <= 19
           /\ Truncate(tag) = U32(h \div Limb, h % Limb)
           /\ Truncate(tag).hi < 32768
           /\ spec.digits \in {6, 7, 8} => otp = Decimal(h % (10 ^ spec.digits), spec.digits)
           /\ (spec.secret = RfcSecret /\ spec.digits = 6 /\ counter = U32(0, 1))
                 => otp = <<"2", "8", "7", "0", "8", "2">>
           /\ (spec.secret = RfcSecret /\ spec.digits = 6 /\ counter = U32(0, 9))
                 => otp = <<"5", "2", "0", "4", "8", "9">>

\* The RFC secret with counter 1: offset 11, and a window whose first byte
\* has its top bit set.
C9_Witness ==
    /\ pc = "otp"
    /\ spec.secret = RfcSecret
    /\ counter = U32(0, 1)
    /\ tag[20] % 16 = 11
    /\ tag[12] >= 128
    /\ otp = <<"2", "8", "7", "0", "8", "2">>

\* C1: with digits in {6, 7, 8} the OTP has exactly `digits` characters, all
\* of them ASCII digits: 10^digits fits 32 bits, the reduced value is below
\* it, and zeros fill the width on the left.
C1_OtpShape ==
    (pc \in OtpStates /\ spec.digits \in {6, 7, 8}) =>
        LET m == Pow10(spec.digits)
            v == U32Rem(Truncate(tag), m)
        IN /\ Len(otp) = spec.digits
           /\ \A i \in 1..Len(otp) : otp[i] \in {"0", "1", "2", "3", "4", "5", "6", "7", "8", "9"}
           /\ m.hi < Limb
           /\ m.hi * Limb + m.lo = 10 ^ spec.digits
           /\ U32Lt(v, m)
           /\ otp = Decimal(v.hi * Limb + v.lo, spec.digits)

\* An eight-digit OTP of a value with fewer than eight digits, other than 0.
C1_Witness ==
    /\ pc \in OtpStates
    /\ spec.digits = 8
    /\ Len(otp) = 8
    /\ otp[1] = "0"
    /\ \E i \in 2..8 : otp[i] # "0"

\* t / period and t % period fit the clock reading t's low 32 bits:
\* c * period <= t mod 2^32 < (c + 1) * period, on limbs (period < 2^15).
IsQuotientOfLow32(c, t, period) ==
    LET low  == (c.lo * period) % Limb
        high == c.hi * period + (c.lo * period) \div Limb
    IN /\ U32Le(U32(high, low), SecsAsU32(t))
       /\ U32Lt(SecsAsU32(t), Carry(high, low + period))

====
